---- MODULE Spec2Model ----
(***************************************************************************)
(* Model of the dual-listener Express server (src/server.js) and of the    *)
(* minimal HTTP server (src/unnamed/part_001).                             *)
(*                                                                         *)
(* The state is the Node process (main script, listeners, pending close    *)
(* callbacks, console log), the in-memory store of the rate limiter, the   *)
(* clock, and the requests in flight, each at its position in the          *)
(* middleware stack that server.js registers with app.use / app.get.       *)
(***************************************************************************)
EXTENDS Integers, Sequences, FiniteSets, TLC

(***************************************************************************)
(* Bounds of the model.                                                    *)
(***************************************************************************)
MaxInFlight == 2
MaxOver == 1
SmallCap == 2
TicksPerWindow == 1
MaxWindows == 1
MaxSignals == 1

(***************************************************************************)
(* Program constants.                                                      *)
(***************************************************************************)
HOSTNAME == "127.0.0.1"
max == 100
windowMs == 15 * 60 * 1000
optionsSuccessStatus == 200
corsOrigin == {"http://localhost:3000", "https://localhost:3443"}

(***************************************************************************)
(* Inputs: the requests a client can send and the environment the process  *)
(* is started in.                                                          *)
(***************************************************************************)
Methods == {"GET", "HEAD", "POST", "PUT", "DELETE", "OPTIONS"}
\* request targets as sent: the path and, on one of them, a query string
Paths == {"/", "/health", "/missing", "/missing?q=1"}
Origins == {"none", "http://localhost:3000", "https://localhost:3443",
            "http://evil.example"}
\* no body; a JSON body; a JSON body with fields the documentation calls
\* invalid (markup in a text field, a type outside the allowed values); bytes
\* that do not parse as JSON
Bodies == {"none", "json", "invalid", "malformed"}
Transports == {"plain", "tls"}
\* Both listeners bind HOSTNAME. Every address of 127.0.0.0/8 is loopback, so
\* clients reach the listeners from several addresses, and the limiter sees
\* each address as a key of its own.
Keys == {HOSTNAME, "127.0.0.2"}

\* every request shape, sent by the client at HOSTNAME
Requests ==
    [method : Methods, path : Paths, origin : Origins, body : Bodies,
     transport : Transports, key : {HOSTNAME}]

\* the minimal server reads nothing of the request but its method
BasicRequests ==
    [method : Methods, path : Paths, origin : {"none"}, body : {"none"},
     transport : {"plain"}, key : {HOSTNAME}]

\* GET / with a body to wait for, over either listener
LifeRequests ==
    [method : {"GET"}, path : {"/"}, origin : {"none"},
     body : {"json"}, transport : Transports, key : {HOSTNAME}]

\* GET / with a body to wait for
ConcRequests ==
    [method : {"GET"}, path : {"/"}, origin : {"none"},
     body : {"json"}, transport : {"plain"}, key : {HOSTNAME}]

\* GET / with a body to wait for, from clients at different addresses
CancelRequests ==
    [method : {"GET"}, path : {"/"}, origin : {"none"},
     body : {"json"}, transport : {"plain"}, key : Keys]

\* GET / with a body that parses or one that does not
FaultRequests ==
    [method : {"GET"}, path : {"/"}, origin : {"none"},
     body : {"json", "malformed"}, transport : {"plain"}, key : {HOSTNAME}]

\* requests with and without route and body, over either listener
DualRequests ==
    [method : {"GET", "POST"}, path : {"/"}, origin : {"none"},
     body : {"none", "json"}, transport : Transports, key : {HOSTNAME}]

\* GET / by one client, as in the curl loop of the README
SimpleRequests ==
    [method : {"GET"}, path : {"/"}, origin : {"none"}, body : {"none"},
     transport : Transports, key : {HOSTNAME}]

\* GET / by clients at different addresses
KeyedRequests ==
    [method : {"GET"}, path : {"/"}, origin : {"none"}, body : {"none"},
     transport : {"plain"}, key : Keys]

\* a file that is not there; one that is there and empty; one with content
\* that is not PEM; a well-formed one. Next to a well-formed certificate, a
\* well-formed key may also be the key of another certificate.
\* ("valid" is an RSA certificate or key, as the README generates them; "ec"
\* is a well-formed pair of another key type, an EC certificate and its key.)
FileStates == {"absent", "empty", "malformed", "valid"}
CertStates == FileStates \cup {"ec"}
KeyStates == FileStates \cup {"unpaired", "ec"}
PortStates == {"free", "inuse"}
Envs == {e \in [cert : CertStates, key : KeyStates,
                port3000 : PortStates, port3443 : PortStates] :
            /\ e.key = "unpaired" => e.cert = "valid"
            /\ e.key = "ec" <=> e.cert = "ec"}
GoodEnv == [cert |-> "valid", key |-> "valid",
            port3000 |-> "free", port3443 |-> "free"]

(***************************************************************************)
(* Response bodies.                                                        *)
(***************************************************************************)
HelloBody == [text |-> "Hello, World!\n"]
EmptyBody == [text |-> ""]
TooManyBody ==
    [error |-> "Too many requests from this IP, please try again later.",
     retryAfter |-> "15 minutes"]
\* Date.prototype.toISOString: the instant as a date and a time of day, to
\* the millisecond (the clock of the model counts from the start of the
\* process, and the date in days from then)
toISOString(t) ==
    [day |-> t \div 86400000, hour |-> (t \div 3600000) % 24,
     minute |-> (t \div 60000) % 60, second |-> (t \div 1000) % 60,
     ms |-> t % 1000]

HealthBody(t) ==
    [status |-> "OK", timestamp |-> toISOString(t), version |-> "1.0.0",
     security |-> [https |-> "enabled", rateLimit |-> "active",
                   headers |-> "protected", validation |-> "active"]]
NotFoundBody(url) ==
    [error |-> "Not Found",
     message |-> "The requested resource was not found on this server.",
     path |-> url]
ServerErrorBody ==
    [error |-> "Internal Server Error",
     message |-> "An unexpected error occurred. Please try again later."]

\* res.send / res.json of Express end a HEAD response without the body.
Sent(req, body) == IF req.method = "HEAD" THEN EmptyBody ELSE body


(***************************************************************************)
(* State.                                                                  *)
(***************************************************************************)
VARIABLES
    env,            \* certificate files and ports found at startup
    proc,           \* "loading", "running" or "exited"
    exitCode,       \* -1 while the process has not exited
    certificates,   \* unset, null or the {cert, key} pair read
    httpServer,     \* state of the plain listener (server.js:160)
    httpsServer,    \* state of the encrypted listener (server.js:183)
    freshHttps,     \* servers created at server.js:219 whose close is pending
    closeCbs,       \* callbacks given to httpServer.close, in order
    signals,        \* termination signals delivered so far
    log,            \* console output, as a set of message tags
    slots,          \* requests in flight, one per connection
    store,          \* rate limiter's memory store: key -> {totalHits, resetTime}
    now,            \* clock, ms since process start
    denied,         \* windows (key, resetTime) in which the 429 handler ran
    admitted,       \* per key: requests the limiter let through in the key's
                    \* current window and in the window before it
    basic           \* last exchange of the minimal server (part_001)

procVars == <<env, proc, exitCode, certificates, httpServer, httpsServer,
              freshHttps, closeCbs, signals, log>>
vars == <<env, proc, exitCode, certificates, httpServer, httpsServer,
          freshHttps, closeCbs, signals, log, slots, store, now, denied,
                   admitted, basic>>

Idle == [stage |-> "idle"]
\* a connection that has not delivered a request yet
Open(t, k) == [stage |-> "open", conn |-> [transport |-> t, key |-> k]]
Unset == [value |-> "unset"]
Null == [value |-> "null"]
NoRateLimit == [limit |-> 0, used |-> 0, remaining |-> 0, resetTime |-> 0]
NoResponse == [none |-> TRUE]

Slots == 1 .. MaxInFlight
\* a client that sends its requests one after another (README, curl loop)
Sequential == {1}

\* the place holds a connection; the connection carries a request that is in
\* the stack or answered
HasConn(s) == slots[s].stage # "idle"
InFlight(s) == slots[s].stage \notin {"idle", "open"}
Conn(s) ==
    IF slots[s].stage = "open" THEN slots[s].conn
    ELSE [transport |-> slots[s].req.transport, key |-> slots[s].req.key]

\* A middleware that is not waiting for I/O runs in the same turn of the
\* event loop as the one before it; express.json waits for the body of a
\* request that has one. While a request is in its turn nothing else runs.
\* A request whose client has gone away is not in its turn either: it waits
\* for the 'close' event of its socket, which delivers the abort to it, and
\* other events are handled before that.
AwaitingBody(c) == c.stage = "json" /\ c.req.body # "none"
AbortPending(c) == c.stage = "errorHandler" /\ c.error = "request.aborted"
Busy(s) ==
    /\ InFlight(s) /\ slots[s].stage # "done"
    /\ ~AwaitingBody(slots[s]) /\ ~AbortPending(slots[s])
Quiet == \A s \in DOMAIN slots : ~Busy(s)

\* The client has gone away during a request: the socket is destroyed and no
\* longer counts as a connection of its server, while the request stays until
\* the abort has been delivered to it.
SocketDestroyed(s) == InFlight(s) /\ slots[s].error = "request.aborted"
Connected(s) == HasConn(s) /\ ~SocketDestroyed(s)

Connections(t) == {s \in DOMAIN slots : Connected(s) /\ Conn(s).transport = t}

\* a connection whose response is written and that waits for a next request
IdleConnection(s) == slots[s].stage = "done"

(***************************************************************************)
(* The middleware stack, in the order server.js registers it.  Each        *)
(* middleware maps the request context c (request, response under          *)
(* construction, position in the stack) to the context after it ran.       *)
(***************************************************************************)
\* (accepted: 0 for a request accepted before any termination signal was
\* delivered, 1 for one accepted after)
NewContext(req) ==
    [stage |-> "helmet", req |-> req,
     accepted |-> IF signals = <<>> THEN 0 ELSE 1,
     res |-> [status |-> 200, body |-> EmptyBody, headers |-> {}],
     trail |-> <<>>, rateLimit |-> NoRateLimit, errors |-> <<>>,
     error |-> "none"]

Pass(c, name, next) == [c EXCEPT !.stage = next, !.trail = Append(@, name)]

End(c, name, status, body) ==
    [c EXCEPT !.stage = "done", !.trail = Append(@, name),
              !.res.status = status, !.res.body = Sent(c.req, body)]

Fail(c, name, err) ==
    [c EXCEPT !.stage = "errorHandler", !.trail = Append(@, name),
              !.error = err]

WithHeaders(c, hs) == [c EXCEPT !.res.headers = @ \cup hs]

\* helmet(): the headers helmet sets with the options of server.js:71-86
\* (crossOriginEmbedderPolicy off, hsts on for every request).
helmetHeaders ==
    {"Content-Security-Policy", "Cross-Origin-Opener-Policy",
     "Cross-Origin-Resource-Policy", "Origin-Agent-Cluster",
     "Referrer-Policy", "Strict-Transport-Security",
     "X-Content-Type-Options", "X-DNS-Prefetch-Control",
     "X-Download-Options", "X-Frame-Options",
     "X-Permitted-Cross-Domain-Policies", "X-XSS-Protection"}

helmet(c) == Pass(WithHeaders(c, helmetHeaders), "helmet", "cors")

\* cors(corsOptions): origin is an array, so a request whose Origin is not
\* listed gets no Access-Control-Allow-Origin header and is passed on;
\* an OPTIONS request is answered here with optionsSuccessStatus.
isOriginAllowed(origin) == origin \in corsOrigin

corsOriginHeaders(req) ==
    (IF isOriginAllowed(req.origin) THEN {"Access-Control-Allow-Origin"} ELSE {})
        \cup {"Vary"}

\* cors registered after the limiter's place: hands on to the body parser
corsBeforeParser(c) ==
    Pass(WithHeaders(c, corsOriginHeaders(c.req)), "cors", "json")

\* cors with preflightContinue: sets the headers and hands OPTIONS on
corsPreflightContinue(c) ==
    Pass(WithHeaders(c, corsOriginHeaders(c.req) \cup
                        (IF c.req.method = "OPTIONS"
                         THEN {"Access-Control-Allow-Methods",
                               "Access-Control-Allow-Headers"}
                         ELSE {})),
         "cors", "limiter")

cors(c) ==
    IF c.req.method = "OPTIONS"
    THEN [WithHeaders(c, corsOriginHeaders(c.req) \cup
                         {"Access-Control-Allow-Methods",
                          "Access-Control-Allow-Headers", "Content-Length"})
            EXCEPT !.stage = "done", !.trail = Append(@, "cors"),
                   !.res.status = optionsSuccessStatus,
                   !.res.body = EmptyBody]
    ELSE Pass(WithHeaders(c, corsOriginHeaders(c.req)), "cors", "limiter")

\* The memory store of express-rate-limit: one {totalHits, resetTime} per
\* key, created on the key's first request, reset once resetTime is reached.
resetDueLate(client, t) == client.resetTime < t

\* a store that opens a new window on every request
resetDueAlways(client, t) == TRUE

resetDue(client, t) == client.resetTime <= t

getClient(st, key, t) ==
    IF key \in DOMAIN st THEN st[key]
    ELSE [totalHits |-> 0, resetTime |-> t + windowMs]

resetClient(client, t) ==
    IF resetDue(client, t)
    THEN [totalHits |-> 0, resetTime |-> t + windowMs]
    ELSE client

hit(client) == [client EXCEPT !.totalHits = @ + 1]

\* every request counted against a store of its own
incrementFresh(st, key, t) == hit(resetClient(getClient(<<>>, key, t), t))

increment(st, key, t) == hit(resetClient(getClient(st, key, t), t))

Put(st, key, client) ==
    [k \in DOMAIN st \cup {key} |-> IF k = key THEN client ELSE st[k]]

exceededAtMax(totalHits) == totalHits >= max

exceeded(totalHits) == totalHits > max

rateLimitInfo(client) ==
    [limit |-> max, used |-> client.totalHits,
     remaining |-> IF client.totalHits >= max THEN 0 ELSE max - client.totalHits,
     resetTime |-> client.resetTime]

rateLimitHeaders ==
    {"RateLimit-Policy", "RateLimit-Limit", "RateLimit-Remaining",
     "RateLimit-Reset"}

\* limiter publishing the quota only on the requests it lets through
limiterQuietDenial(c, client) ==
    IF exceeded(client.totalHits)
    THEN End([c EXCEPT !.rateLimit = rateLimitInfo(client)],
             "limiter", 429, TooManyBody)
    ELSE Pass([WithHeaders(c, rateLimitHeaders)
                 EXCEPT !.rateLimit = rateLimitInfo(client)], "limiter", "json")

\* limiter: counts the request, publishes the quota, and answers 429 through
\* the configured handler once the count exceeds max.
limiter(c, client) ==
    LET d == [WithHeaders(c, rateLimitHeaders)
                EXCEPT !.rateLimit = rateLimitInfo(client)]
    IN  IF exceeded(client.totalHits)
        THEN End(WithHeaders(d, {"Retry-After"}), "limiter", 429, TooManyBody)
        ELSE Pass(d, "limiter", "json")

\* a parser that hands on whatever it could not parse
jsonParserLenient(c) == Pass(c, "json", "urlencoded")

\* a parser that writes a 400 status for a body it cannot parse and still
\* hands the request on
jsonParserAnswersAndGoesOn(c) ==
    IF c.req.body = "malformed"
    THEN Pass([c EXCEPT !.res.status = 400], "json", "urlencoded")
    ELSE Pass(c, "json", "urlencoded")

\* express.json: a body that does not parse is handed to the error handler.
jsonParser(c) ==
    IF c.req.body = "malformed"
    THEN Fail(c, "json", "SyntaxError")
    ELSE Pass(c, "json", "urlencoded")

urlencodedParser(c) == Pass(c, "urlencoded", "validateInput")

\* validateInput: body('*').optional().trim().escape() only sanitises; it
\* declares no validator, so it never adds to the error list.
validateInput(c) ==
    Pass([c EXCEPT !.errors = <<>>], "validateInput", "handleValidationErrors")

handleValidationErrors(c) ==
    IF c.errors # <<>>
    THEN End(c, "handleValidationErrors", 400,
             [error |-> "Invalid input provided", details |-> c.errors])
    ELSE Pass(c, "handleValidationErrors", "router")

\* req.originalUrl is the request target as sent; routes match on its path
\* part, without the query string.
originalUrl(req) == req.path

pathname(url) == IF url = "/missing?q=1" THEN "/missing" ELSE url

\* app.get matches GET and, with no HEAD route declared, HEAD.
matchesGet(req, path) ==
    req.method \in {"GET", "HEAD"} /\ pathname(originalUrl(req)) = path

routerNotFoundFirst(c) == End(c, "notFound", 404, NotFoundBody(originalUrl(c.req)))

\* a 404 handler that echoes req.path, the target without its query string
routerEchoesPath(c) ==
    IF matchesGet(c.req, "/health") THEN End(c, "health", 200, HealthBody(now))
    ELSE IF matchesGet(c.req, "/") THEN End(c, "root", 200, HelloBody)
    ELSE End(c, "notFound", 404, NotFoundBody(pathname(originalUrl(c.req))))

router(c) ==
    IF matchesGet(c.req, "/health") THEN End(c, "health", 200, HealthBody(now))
    ELSE IF matchesGet(c.req, "/") THEN End(c, "root", 200, HelloBody)
    ELSE End(c, "notFound", 404, NotFoundBody(originalUrl(c.req)))

\* the error handler Express falls back to when the application registers
\* none: it drops the headers set so far before it writes the 500
defaultErrorHandler(c) ==
    End([c EXCEPT !.res.headers = {}], "errorHandler", 500, ServerErrorBody)

errorHandler(c) == End(c, "errorHandler", 500, ServerErrorBody)

\* app: the one Express application both servers are created with. A request
\* runs through the stack from the first middleware to the one that ends the
\* response; client is the record the store returns to the limiter.
appStep(c, client) ==
    CASE c.stage = "helmet" -> helmet(c)
      [] c.stage = "cors" -> cors(c)
      [] c.stage = "limiter" -> limiter(c, client)
      [] c.stage = "json" -> jsonParser(c)
      [] c.stage = "urlencoded" -> urlencodedParser(c)
      [] c.stage = "validateInput" -> validateInput(c)
      [] c.stage = "handleValidationErrors" -> handleValidationErrors(c)
      [] c.stage = "router" -> router(c)
      [] c.stage = "errorHandler" -> errorHandler(c)

RECURSIVE app(_, _)
app(c, client) == IF c.stage = "done" THEN c ELSE app(appStep(c, client), client)

\* The request handler of the minimal server: the same answer to everything
\* (Node ends a HEAD response without its body).
requestHandler(req) ==
    [status |-> 200, headers |-> {"Content-Type"}, body |-> Sent(req, HelloBody)]


(***************************************************************************)
(* Initial states: the module is loaded, nothing has run yet.              *)
(***************************************************************************)
InitIn(E) ==
    /\ env \in E
    /\ proc = "loading"
    /\ exitCode = -1
    /\ certificates = Unset
    /\ httpServer = "Unstarted"
    /\ httpsServer = "none"
    /\ freshHttps = 0
    /\ closeCbs = <<>>
    /\ signals = <<>>
    /\ log = {}
    /\ slots = [s \in Slots |-> Idle]
    /\ store = <<>>
    /\ now = 0
    /\ denied = {}
    /\ admitted = <<>>
    /\ basic = NoResponse

Init == InitIn(Envs)
InitGood == InitIn({GoodEnv})

(***************************************************************************)
(* Startup: the main script of server.js, which runs to completion before  *)
(* any callback.                                                           *)
(***************************************************************************)
\* fs.readFileSync of both files inside try/catch: null when either is absent.
loadTLSCertificates(e) ==
    IF e.cert = "absent" \/ e.key = "absent"
    THEN Null
    ELSE [value |-> "pair", cert |-> e.cert, key |-> e.key]

\* https.createServer builds the TLS context at once: it skips an empty
\* certificate or key, and throws on content that is not PEM and on a key that
\* does not belong to the certificate.
createServerThrows(certs) ==
    \/ certs.cert = "malformed"
    \/ certs.key = "malformed"
    \/ certs.cert = "valid" /\ certs.key = "unpaired"

\* A TLS handshake succeeds only on a context that has a certificate and its
\* key, and of a type the configured ciphers (ECDHE-RSA only) can use, an RSA
\* pair; without, the connection fails before any request reaches app.
handshakes(certs) ==
    certs # Null /\ certs.cert = "valid" /\ certs.key = "valid"

Startup ==
    /\ proc = "loading"
    /\ basic = NoResponse
    /\ LET certs == loadTLSCertificates(env) IN
       /\ certificates' = certs
       /\ httpServer' = "Binding"
       /\ IF certs = Null
          THEN /\ httpsServer' = "none"
               /\ proc' = "running"
               /\ exitCode' = exitCode
               /\ log' = log \cup {"cert-failed", "https-not-started"}
          ELSE IF createServerThrows(certs)
          THEN \* uncaught exception at module level: Node exits with 1
               /\ httpsServer' = "none"
               /\ proc' = "exited"
               /\ exitCode' = 1
               /\ log' = log \cup {"cert-loaded"}
          ELSE /\ httpsServer' = "Binding"
               /\ proc' = "running"
               /\ exitCode' = exitCode
               /\ log' = log \cup {"cert-loaded"}
    /\ UNCHANGED <<env, freshHttps, closeCbs, signals, slots, store, now, denied,
                   admitted, basic>>

\* 'listening' callback of httpServer.listen
HttpListening ==
    /\ proc = "running" /\ httpServer = "Binding" /\ env.port3000 = "free"
    /\ httpServer' = "Listening"
    /\ log' = log \cup {"http-running"}
    /\ UNCHANGED <<env, proc, exitCode, certificates, httpsServer, freshHttps,
                   closeCbs, signals, slots, store, now, denied,
                   admitted, basic>>

\* httpServer.on('error'): logs, and nothing else
HttpError ==
    /\ proc = "running" /\ httpServer = "Binding" /\ env.port3000 = "inuse"
    /\ httpServer' = "Failed"
    /\ log' = log \cup {"http-error"}
    /\ UNCHANGED <<env, proc, exitCode, certificates, httpsServer, freshHttps,
                   closeCbs, signals, slots, store, now, denied,
                   admitted, basic>>

\* 'listening' callback of httpsServer.listen
HttpsListening ==
    /\ proc = "running" /\ httpsServer = "Binding" /\ env.port3443 = "free"
    /\ httpsServer' = "Listening"
    /\ log' = log \cup {"https-running"}
    /\ UNCHANGED <<env, proc, exitCode, certificates, httpServer, freshHttps,
                   closeCbs, signals, slots, store, now, denied,
                   admitted, basic>>

\* an error handler that ends the process after logging
HttpsErrorFatal ==
    /\ proc = "running" /\ httpsServer = "Binding" /\ env.port3443 = "inuse"
    /\ httpsServer' = "Failed"
    /\ log' = log \cup {"https-error"}
    /\ proc' = "exited"
    /\ exitCode' = 1
    /\ UNCHANGED <<env, certificates, httpServer, freshHttps,
                   closeCbs, signals, slots, store, now, denied,
                   admitted, basic>>

\* httpsServer.on('error'): logs, and nothing else
HttpsError ==
    /\ proc = "running" /\ httpsServer = "Binding" /\ env.port3443 = "inuse"
    /\ httpsServer' = "Failed"
    /\ log' = log \cup {"https-error"}
    /\ UNCHANGED <<env, proc, exitCode, certificates, httpServer, freshHttps,
                   closeCbs, signals, slots, store, now, denied,
                   admitted, basic>>

\* The bind results are delivered on the next tick, before any I/O or signal.
Settled ==
    /\ proc = "running"
    /\ Quiet
    /\ httpServer # "Binding"
    /\ httpsServer # "Binding"

(***************************************************************************)
(* Shutdown.                                                               *)
(***************************************************************************)
\* server.close(): a listening server stops accepting; any other keeps its
\* state and only has the callback queued for its 'close' event.
closeServer(state) == IF state = "Listening" THEN "Closing" ELSE state

\* http.Server.close() (Node 19 and later) also destroys the server's idle
\* connections, those that have been answered and wait for a next request;
\* a connection with a request in progress, or one that has not delivered a
\* request yet, stays.
closeIdleConnections(sl, t) ==
    [s \in DOMAIN sl |->
        IF sl[s].stage = "done" /\ sl[s].req.transport = t THEN Idle ELSE sl[s]]

\* process.on('SIGTERM') / process.on('SIGINT'): both call httpServer.close
Signal(sig) ==
    /\ Settled
    /\ Len(signals) < MaxSignals
    /\ signals' = Append(signals, sig)
    /\ log' = log \cup {"received-" \o sig}
    /\ httpServer' = closeServer(httpServer)
    /\ slots' = closeIdleConnections(slots, "plain")
    /\ closeCbs' = Append(closeCbs, sig)
    /\ UNCHANGED <<env, proc, exitCode, certificates, httpsServer, freshHttps,
                   store, now, denied,
                   admitted, basic>>

SIGTERM == Signal("SIGTERM")
SIGINT == Signal("SIGINT")

\* The callbacks of httpServer.close, run in order on the 'close' event. The
\* SIGTERM callback exits at once without certificates; with them it creates
\* a new https server and closes that one. The SIGINT callback exits.
\* st = [exited, fresh]
\* waits for the listening https server to close, which nobody closes
sigtermCallbackWaits(st, certs) ==
    IF certs # Null THEN st ELSE [st EXCEPT !.exited = TRUE]

sigtermCallback(st, certs) ==
    IF certs # Null
    THEN [st EXCEPT !.fresh = @ + 1]
    ELSE [st EXCEPT !.exited = TRUE]

sigintCallback(st, certs) == [st EXCEPT !.exited = TRUE]

RECURSIVE runCallbacks(_, _, _)
runCallbacks(cbs, st, certs) ==
    IF cbs = <<>> \/ st.exited THEN st
    ELSE runCallbacks(Tail(cbs),
                      IF Head(cbs) = "SIGTERM"
                      THEN sigtermCallback(st, certs)
                      ELSE sigintCallback(st, certs),
                      certs)

\* exit code handed to process.exit by the shutdown callbacks
shutdownExitCode == 0

\* 'close' event of httpServer: its handle is closed and its connections
\* ended. It is emitted on the next tick after the last socket is destroyed,
\* before the abort of that socket's request is delivered.
HttpCloseEvent ==
    /\ proc = "running" /\ Quiet
    /\ closeCbs # <<>>
    /\ httpServer \in {"Closing", "Closed", "Failed"}
    /\ Connections("plain") = {}
    /\ LET st == runCallbacks(closeCbs, [exited |-> FALSE, fresh |-> freshHttps],
                              certificates) IN
       /\ freshHttps' = st.fresh
       /\ proc' = IF st.exited THEN "exited" ELSE proc
       /\ exitCode' = IF st.exited THEN shutdownExitCode ELSE exitCode
    /\ httpServer' = IF httpServer = "Closing" THEN "Closed" ELSE httpServer
    /\ closeCbs' = <<>>
    /\ log' = log \cup {"http-closed"}
    /\ UNCHANGED <<env, certificates, httpsServer, signals, slots, store, now, denied,
                   admitted, basic>>

\* 'close' event of a server created at server.js:219, which never listened
FreshCloseEvent ==
    /\ proc = "running" /\ Quiet
    /\ freshHttps > 0
    /\ proc' = "exited"
    /\ exitCode' = shutdownExitCode
    /\ log' = log \cup {"https-closed"}
    /\ UNCHANGED <<env, certificates, httpServer, httpsServer, freshHttps,
                   closeCbs, signals, slots, store, now, denied,
                   admitted, basic>>

\* A 'close' event waits on the next-tick queue, which is emptied before any
\* event of a socket is handled.
CloseQueued ==
    \/ freshHttps > 0
    \/ /\ closeCbs # <<>>
       /\ httpServer \in {"Closing", "Closed", "Failed"}
       /\ Connections("plain") = {}

\* Nothing keeps the event loop alive: Node exits with 0.
Active(state) == state \in {"Binding", "Listening", "Closing"}

LoopEmpty ==
    /\ proc = "running"
    /\ ~Active(httpServer) /\ ~Active(httpsServer)
    /\ closeCbs = <<>> /\ freshHttps = 0
    /\ \A s \in DOMAIN slots : ~HasConn(s)
    /\ proc' = "exited"
    /\ exitCode' = 0
    /\ UNCHANGED <<env, certificates, httpServer, httpsServer, freshHttps,
                   closeCbs, signals, log, slots, store, now, denied,
                   admitted, basic>>

(***************************************************************************)
(* Requests.                                                               *)
(***************************************************************************)
Listener(t) == IF t = "plain" THEN httpServer ELSE httpsServer

\* hits the key has in its running window
currentHits(key) ==
    IF key \in DOMAIN store /\ store[key].resetTime > now
    THEN store[key].totalHits ELSE 0

\* Bookkeeping of what the limiter let through, window by window: a window is
\* named by its resetTime, and begins windowMs before it.
NoWindow == [resetTime |-> 0, admitted |-> 0]

windowsOf(key) ==
    IF key \in DOMAIN admitted THEN admitted[key]
    ELSE [cur |-> NoWindow, prev |-> NoWindow]

recordOutcome(w, client, passed) ==
    LET n == IF passed THEN 1 ELSE 0 IN
    IF w.cur.resetTime = client.resetTime
    THEN [w EXCEPT !.cur.admitted = @ + n]
    ELSE [cur |-> [resetTime |-> client.resetTime, admitted |-> n],
          prev |-> w.cur]

\* requests a client sends in one window: the client at HOSTNAME up to cap,
\* any other up to SmallCap
Quota(req, cap) == IF req.key = HOSTNAME THEN cap ELSE SmallCap

\* A listener accepts a connection ('connection' event; for the encrypted
\* listener after the TLS handshake). The request comes in a later turn of the
\* event loop, when the client has sent it.
Connect(s, req, cap) ==
    /\ Settled
    /\ ~HasConn(s)
    /\ Listener(req.transport) = "Listening"
    /\ req.transport = "tls" => handshakes(certificates)
    /\ currentHits(req.key) < cap
    /\ slots' = [slots EXCEPT ![s] = Open(req.transport, req.key)]
    /\ UNCHANGED <<procVars, store, now, denied,
                   admitted, basic>>

\* 'request' event: a connection delivers a request and Node dispatches it
\* into app, while the listener is listening and also after close() was
\* called on it, which only stops new connections.
Dispatch(s, req, cap) ==
    /\ proc = "running" /\ Quiet
    /\ HasConn(s)
    /\ req.transport = Conn(s).transport
    /\ req.key = Conn(s).key
    /\ Listener(req.transport) \in {"Listening", "Closing"}
    /\ currentHits(req.key) < cap
    /\ slots' = [slots EXCEPT ![s] = NewContext(req)]
    /\ UNCHANGED <<procVars, store, now, denied,
                   admitted, basic>>

\* the first request of a connection
FirstRequest(s, req, cap) == slots[s].stage = "open" /\ Dispatch(s, req, cap)

\* the next request of a connection that stayed open after a response
\* (keep-alive) and whose client is still there
KeepAlive(s, req, cap) ==
    /\ IdleConnection(s) /\ slots[s].error # "request.aborted"
    /\ Dispatch(s, req, cap)

\* a client connects and sends its first request
Accept(s, req, cap) == Connect(s, req, cap) \/ FirstRequest(s, req, cap)

\* a place for a connection, or a connection waiting to send its request
Free(s) == proc = "running" /\ ~InFlight(s)

\* Connections are interchangeable: a new one takes the first free place.
FirstFree(s) == HasConn(s) \/ \A r \in Slots : r < s => HasConn(r)

At(s, stage) == proc = "running" /\ slots[s].stage = stage

Run(s, c) ==
    /\ slots' = [slots EXCEPT ![s] = c]
    /\ UNCHANGED <<procVars, store, now, denied,
                   admitted, basic>>

Helmet(s) == At(s, "helmet") /\ Run(s, helmet(slots[s]))

Cors(s) == At(s, "cors") /\ Run(s, cors(slots[s]))

\* a limiter that keeps one count per key and transport
LimiterPerTransport(s) ==
    /\ At(s, "limiter")
    /\ LET key == slots[s].req.key \o "/" \o slots[s].req.transport
           client == increment(store, key, now) IN
       /\ store' = Put(store, key, client)
       /\ slots' = [slots EXCEPT ![s] = limiter(slots[s], client)]
       /\ denied' = denied
       /\ admitted' = admitted
    /\ UNCHANGED <<procVars, now, basic>>

Limiter(s) ==
    /\ At(s, "limiter")
    /\ LET key == slots[s].req.key
           client == increment(store, key, now) IN
       /\ store' = Put(store, key, client)
       /\ slots' = [slots EXCEPT ![s] = limiter(slots[s], client)]
       /\ denied' = IF exceeded(client.totalHits)
                    THEN denied \cup {<<key, client.resetTime>>}
                    ELSE denied
       /\ admitted' = Put(admitted, key,
                          recordOutcome(windowsOf(key), client,
                                        ~exceeded(client.totalHits)))
    /\ UNCHANGED <<procVars, now, basic>>

JsonParser(s) == At(s, "json") /\ Run(s, jsonParser(slots[s]))

UrlencodedParser(s) == At(s, "urlencoded") /\ Run(s, urlencodedParser(slots[s]))

ValidateInput(s) == At(s, "validateInput") /\ Run(s, validateInput(slots[s]))

HandleValidationErrors(s) ==
    At(s, "handleValidationErrors") /\ Run(s, handleValidationErrors(slots[s]))

Router(s) == At(s, "router") /\ Run(s, router(slots[s]))

\* the global error handler: logs the error and answers. The abort of a
\* request whose socket was destroyed reaches it in a turn of its own, when
\* the socket's 'close' event is handled, and only after a 'close' event of
\* a server that is already queued.
ErrorHandler(s) ==
    /\ At(s, "errorHandler")
    /\ AbortPending(slots[s]) => Quiet /\ ~CloseQueued
    /\ slots' = [slots EXCEPT ![s] = errorHandler(slots[s])]
    /\ log' = log \cup {"server-error"}
    /\ UNCHANGED <<env, proc, exitCode, certificates, httpServer, httpsServer,
                   freshHttps, closeCbs, signals, store, now, denied,
                   admitted, basic>>

\* a disconnect that takes back the hit the limiter counted for the request
DisconnectRollsBack(s) ==
    /\ proc = "running" /\ Quiet
    /\ InFlight(s) /\ AwaitingBody(slots[s])
    /\ slots' = [slots EXCEPT ![s] = Fail(slots[s], "json", "request.aborted")]
    /\ store' = [store EXCEPT ![slots[s].req.key].totalHits = @ - 1]
    /\ UNCHANGED <<procVars, now, denied, admitted, basic>>

\* The client goes away while express.json is reading the request body: the
\* socket is destroyed, and when the abort is delivered the parser fails with
\* "request aborted" and the request goes to the error handler, whose
\* response meets a closed socket.
Disconnect(s) ==
    /\ proc = "running" /\ Quiet
    /\ InFlight(s) /\ AwaitingBody(slots[s])
    /\ slots' = [slots EXCEPT ![s] = Fail(slots[s], "json", "request.aborted")]
    /\ UNCHANGED <<procVars, store, now, denied, admitted, basic>>

\* A connection that carries no request in progress is closed, by the client
\* or by the server's keep-alive timeout.
Discard(s) ==
    /\ proc = "running" /\ Quiet
    /\ slots[s].stage \in {"open", "done"}
    /\ slots' = [slots EXCEPT ![s] = Idle]
    /\ UNCHANGED <<procVars, store, now, denied,
                   admitted, basic>>

\* One request through the stack, middleware after middleware.
Advance(s) ==
    \/ Helmet(s) \/ Cors(s) \/ Limiter(s) \/ JsonParser(s)
    \/ UrlencodedParser(s) \/ ValidateInput(s) \/ HandleValidationErrors(s)
    \/ Router(s)

TickMs == windowMs \div TicksPerWindow

Tick ==
    /\ proc = "running" /\ Quiet
    /\ now + TickMs <= MaxWindows * windowMs
    /\ now' = now + TickMs
    /\ UNCHANGED <<procVars, slots, store, denied,
                   admitted, basic>>

\* A request to the minimal server. It binds the port of the plain listener,
\* so a run serves with one program or with the other.
BasicRequest(req) ==
    /\ proc = "loading"
    /\ basic' = [req |-> req, res |-> requestHandler(req)]
    /\ UNCHANGED <<procVars, slots, store, now, denied, admitted>>

(***************************************************************************)
(* Specifications.                                                         *)
(***************************************************************************)
Boot == Startup \/ HttpListening \/ HttpsListening

\* Spec: every startup environment and every request shape, one request
\* after another, both programs.
Next ==
    \/ Boot \/ HttpError \/ HttpsError \/ LoopEmpty
    \/ \E s \in Sequential : Free(s) /\ \E req \in Requests : Accept(s, req, SmallCap)
    \/ \E s \in Sequential : Advance(s) \/ ErrorHandler(s) \/ Discard(s)
    \/ proc = "loading" /\ \E req \in BasicRequests : BasicRequest(req)

Spec == Init /\ [][Next]_vars

\* SpecRate: GET / one after another, up to and past the limit, across windows.
NextRate ==
    \/ Boot
    \/ \E s \in Sequential, req \in SimpleRequests : Accept(s, req, max + MaxOver)
    \/ \E s \in Sequential : Advance(s) \/ Discard(s)
    \/ Tick

SpecRate == InitGood /\ [][NextRate]_vars

\* SpecKeys: GET / from two client addresses, one after another, the first
\* client up to and past the limit of one window.
NextKeys ==
    \/ Boot
    \/ \E s \in Sequential, req \in KeyedRequests :
         Accept(s, req, Quota(req, max + MaxOver))
    \/ \E s \in Sequential : Advance(s) \/ Discard(s)

SpecKeys == InitGood /\ [][NextKeys]_vars

\* SpecConc: GET / on several connections at once, across windows.
NextConc ==
    \/ Boot
    \/ \E s \in Slots, req \in ConcRequests : Accept(s, req, SmallCap)
    \/ \E s \in Slots : Advance(s) \/ Discard(s)
    \/ Tick

SpecConc == InitGood /\ [][NextConc]_vars

\* SpecMix: every request shape, one request after another, up to and past
\* the limit of one window.
NextMix ==
    \/ Boot
    \/ \E s \in Sequential :
         Free(s) /\ \E req \in Requests : Accept(s, req, max + MaxOver)
    \/ \E s \in Sequential : Advance(s) \/ ErrorHandler(s) \/ Discard(s)

SpecMix == InitGood /\ [][NextMix]_vars

\* SpecFault: requests on several connections at once, some with a body that
\* makes express.json fail.
NextFault ==
    \/ Boot
    \/ \E s \in Slots, req \in FaultRequests : Accept(s, req, SmallCap)
    \/ \E s \in Slots : Advance(s) \/ ErrorHandler(s) \/ Discard(s)

SpecFault == InitGood /\ [][NextFault]_vars

\* SpecCancel: requests of two clients on several connections at once; a
\* client may go away while the body is read.
NextCancel ==
    \/ Boot
    \/ \E s \in Slots, req \in CancelRequests : Accept(s, req, SmallCap)
    \/ \E s \in Slots : Advance(s) \/ ErrorHandler(s) \/ Discard(s)
    \/ \E s \in Slots : Disconnect(s)

SpecCancel == InitGood /\ [][NextCancel]_vars

\* SpecDual: requests arriving over both listeners at once.
NextDual ==
    \/ Boot
    \/ \E s \in Slots, req \in DualRequests :
         FirstFree(s) /\ Accept(s, req, SmallCap)
    \/ \E s \in Slots : Advance(s) \/ Discard(s)

SpecDual == InitGood /\ [][NextDual]_vars

\* SpecLife: every startup environment, requests in flight, signals, shutdown.
NextLife ==
    \/ Boot \/ HttpError \/ HttpsError
    \/ SIGTERM \/ SIGINT \/ HttpCloseEvent \/ FreshCloseEvent \/ LoopEmpty
    \/ \E s \in Slots, req \in LifeRequests :
         FirstFree(s) /\ Accept(s, req, SmallCap)
    \/ \E s \in Slots, req \in LifeRequests : KeepAlive(s, req, SmallCap)
    \/ \E s \in Slots : Advance(s) \/ ErrorHandler(s) \/ Discard(s)
    \/ \E s \in Slots : Disconnect(s)

SpecLife == Init /\ [][NextLife]_vars

\* The event loop runs every pending callback: the stages of a request that
\* is in its turn, the delivery of an abort, and the close events. (Whether
\* the body of a request arrives and whether a connection is closed is up to
\* the client.)
InTurn(s) ==
    /\ Busy(s) \/ AbortPending(slots[s])
    /\ Advance(s) \/ ErrorHandler(s)

Fairness ==
    /\ \A s \in Slots : WF_vars(InTurn(s))
    /\ WF_vars(HttpCloseEvent)
    /\ WF_vars(FreshCloseEvent)

SpecLifeFair == SpecLife /\ Fairness

\* The life of the process with at most two client connections open at a
\* time, and with the certificate and the key file in the same state.
PairedFiles == {e \in Envs : e.key = e.cert}
SecondClient(s) == HasConn(s) \/ \A a, b \in Slots : HasConn(a) /\ HasConn(b) => a = b

NextExit ==
    \/ Boot \/ HttpError \/ HttpsError
    \/ SIGTERM \/ SIGINT \/ HttpCloseEvent \/ FreshCloseEvent \/ LoopEmpty
    \/ \E s \in Slots, req \in LifeRequests :
         FirstFree(s) /\ SecondClient(s) /\ Accept(s, req, SmallCap)
    \/ \E s \in Slots, req \in LifeRequests : KeepAlive(s, req, SmallCap)
    \/ \E s \in Slots : Advance(s) \/ ErrorHandler(s) \/ Discard(s)
    \/ \E s \in Slots : Disconnect(s)

SpecExit == InitIn(PairedFiles) /\ [][NextExit]_vars

SpecExitFair == SpecExit /\ Fairness


(***************************************************************************)
(* Properties.                                                             *)
(***************************************************************************)
Done(s) == slots[s].stage = "done"
Trail(s) == {slots[s].trail[i] : i \in 1 .. Len(slots[s].trail)}
Counted(s) == InFlight(s) /\ slots[s].rateLimit.used > 0
RootPlain(req) ==
    /\ req.path = "/"
    /\ req.body = "none"
    /\ req.origin \in {"none"} \cup corsOrigin

\* C1 (as stated): every request to / without body and without disallowed
\* Origin that the limiter admits is answered 200 "Hello, World!\n", whatever
\* its method, by the Express server and by the minimal server. (HEAD is left
\* out: HTTP sends no body in answer to it.)
C1_AnyMethodHello ==
    /\ \A s \in DOMAIN slots :
         (Done(s) /\ RootPlain(slots[s].req) /\ slots[s].req.method # "HEAD"
            /\ slots[s].res.status # 429)
         => (slots[s].res.status = 200 /\ slots[s].res.body = HelloBody)
    /\ (basic # NoResponse /\ RootPlain(basic.req) /\ basic.req.method # "HEAD")
         => (basic.res.status = 200 /\ basic.res.body = HelloBody)

\* C1 (amended): every GET request to / without body and without disallowed
\* Origin that the limiter admits is answered 200 "Hello, World!\n"; the
\* minimal server answers so for every method that carries a response body.
C1_GetRootHello ==
    /\ \A s \in DOMAIN slots :
         (Done(s) /\ RootPlain(slots[s].req) /\ slots[s].req.method = "GET"
            /\ slots[s].res.status # 429)
         => (slots[s].res.status = 200 /\ slots[s].res.body = HelloBody)
    /\ (basic # NoResponse /\ RootPlain(basic.req) /\ basic.req.method # "HEAD")
         => (basic.res.status = 200 /\ basic.res.body = HelloBody)

C1_Witness ==
    \E s \in DOMAIN slots :
        /\ Done(s) /\ RootPlain(slots[s].req) /\ slots[s].req.method = "GET"
        /\ slots[s].req.origin = "http://localhost:3000"
        /\ slots[s].res.status = 200 /\ slots[s].res.body = HelloBody
        /\ "root" \in Trail(s)

\* C2: in one window the requests counted 1..100 for a key are admitted (and
\* GET / answers 200); the one counted 101 is answered 429 {error, retryAfter}
\* by the limiter and runs no later middleware. The count is the key's own:
\* what the limiter has let through for a key is the number of its requests,
\* up to 100, whatever other keys have sent.
C2_HundredThenDenied ==
    /\ \A key \in DOMAIN store :
         /\ key \in DOMAIN admitted
         /\ admitted[key].cur.admitted =
              IF store[key].totalHits <= max THEN store[key].totalHits ELSE max
    /\ \A s \in DOMAIN slots :
        Counted(s) =>
            IF slots[s].rateLimit.used <= max
            THEN /\ slots[s].stage \notin {"helmet", "cors", "limiter"}
                 /\ Done(s) => /\ slots[s].res.status = 200
                               /\ slots[s].res.body = HelloBody
                               /\ "root" \in Trail(s)
            ELSE /\ Done(s)
                 /\ slots[s].res.status = 429
                 /\ DOMAIN slots[s].res.body = {"error", "retryAfter"}
                 /\ slots[s].trail = <<"helmet", "cors", "limiter">>

\* one client denied at 101, another admitted after that
C2_Witness ==
    \E s \in DOMAIN slots :
        /\ Done(s) /\ slots[s].req.key # HOSTNAME
        /\ slots[s].res.status = 200 /\ slots[s].rateLimit.used = 1
        /\ HOSTNAME \in DOMAIN store
        /\ store[HOSTNAME].totalHits = max + 1
        /\ <<HOSTNAME, store[HOSTNAME].resetTime>> \in denied

\* C3: when a key that has exceeded its limit sends a request once its window
\* has elapsed, the limiter admits the request and the key's count restarts.
C3_AdmittedAfterWindow ==
    [][\A s \in DOMAIN slots :
         LET key == slots[s].req.key IN
         (/\ slots[s].stage = "limiter" /\ slots'[s].stage # "limiter"
          /\ key \in DOMAIN store
          /\ store[key].totalHits > max
          /\ now >= store[key].resetTime)
         => /\ slots'[s].stage = "json"
            /\ store'[key].totalHits = 1
            /\ store'[key].resetTime = now + windowMs]_vars

C3_Witness ==
    \E s \in DOMAIN slots :
        /\ Done(s) /\ slots[s].res.status = 200
        /\ slots[s].rateLimit.used = 1
        /\ \E d \in denied :
             /\ d[1] = slots[s].req.key
             /\ d[2] <= slots[s].rateLimit.resetTime - windowMs

\* C4 (as stated): a request with an Origin outside the allow-list ends at the
\* CORS stage: no limiter, no validation, no route handler runs for it.
C4_DisallowedOriginStopsAtCors ==
    \A s \in DOMAIN slots :
        (InFlight(s) /\ slots[s].req.origin \notin {"none"} \cup corsOrigin)
        => /\ slots[s].stage \in {"helmet", "cors", "done"}
           /\ Trail(s) \subseteq {"helmet", "cors"}
           /\ slots[s].rateLimit = NoRateLimit

\* C5: requests of one key processed in any interleaving are each counted
\* exactly once: a request passing the limiter raises the key's count by one,
\* nothing else changes it, and no two requests of a window get the same count.
SameWindow(s, t) ==
    /\ Counted(s) /\ Counted(t)
    /\ slots[s].req.key = slots[t].req.key
    /\ slots[s].rateLimit.resetTime = slots[t].rateLimit.resetTime

Passing(key) ==
    {s \in DOMAIN slots : /\ slots[s].stage = "limiter"
                          /\ slots'[s].stage # "limiter"
                          /\ slots[s].req.key = key}

C5_CountsDistinct ==
    /\ \A s, t \in DOMAIN slots :
         (s # t /\ SameWindow(s, t))
         => slots[s].rateLimit.used # slots[t].rateLimit.used
    /\ \A s \in DOMAIN slots :
         LET key == slots[s].req.key IN
         (Counted(s) /\ slots[s].rateLimit.resetTime = store[key].resetTime)
         => slots[s].rateLimit.used <= store[key].totalHits

C5_CountsOnce ==
    \A key \in Keys :
        LET before == IF key \in DOMAIN store /\ store[key].resetTime > now
                      THEN store[key].totalHits ELSE 0
            n == Cardinality(Passing(key))
        IN  IF n = 0
            THEN /\ (key \in DOMAIN store') = (key \in DOMAIN store)
                 /\ key \in DOMAIN store => store'[key] = store[key]
            ELSE store'[key].totalHits = before + n

C5_ExactlyNIncrements == []C5_CountsDistinct /\ [][C5_CountsOnce]_vars

C5_Witness ==
    /\ \A s \in Slots : slots[s].stage \in {"json", "urlencoded", "validateInput",
                                            "handleValidationErrors", "router"}
    /\ {slots[s].rateLimit.used : s \in Slots} = 1 .. MaxInFlight
    /\ \E key \in DOMAIN store : store[key].totalHits = MaxInFlight

\* C6 (as stated): with the certificate or the key file absent, startup raises
\* nothing, the encrypted listener is never started, the plain listener
\* serves, and what the system reports about the encrypted listener is that
\* it is inactive.
CertsAbsent == env.cert = "absent" \/ env.key = "absent"

C6_AbsentCertsReportedInactive ==
    (proc # "loading" /\ CertsAbsent)
    => /\ exitCode # 1
       /\ httpsServer = "none"
       /\ "https-not-started" \in log
       /\ \A s \in DOMAIN slots :
            Done(s) => /\ slots[s].req.transport = "plain"
                       /\ "health" \in Trail(s) /\ slots[s].req.method = "GET"
                            => slots[s].res.body.security.https # "enabled"

\* C7 (as stated): with a key or certificate file that exists but is not PEM,
\* nothing is raised past the loading step: the process keeps running and
\* only the encrypted listener is missing.
CertsMalformed ==
    /\ ~CertsAbsent
    /\ env.cert \in {"empty", "malformed"} \/ env.key \in {"empty", "malformed"}

C7_MalformedCertsOnlyDisableHttps ==
    (proc # "loading" /\ CertsMalformed)
    => /\ exitCode # 1
       /\ httpsServer = "none"
       /\ httpServer # "Unstarted"

\* C8 (as stated): a plain listener that fails to bind is fatal: the failure
\* is logged and the process has exited with a non-zero code.
C8_PlainBindFailureFatal ==
    httpServer = "Failed"
    => /\ "http-error" \in log
       /\ proc = "exited"
       /\ exitCode > 0

\* C9 (as stated): when the process exits after a termination signal, every
\* listener that was listening has been closed.
C9_ListenersClosedBeforeExit ==
    (proc = "exited" /\ signals # <<>>)
    => /\ httpServer \in {"Closed", "Failed"}
       /\ httpsServer \in {"none", "Closed", "Failed"}

\* every connection is closed in the end (its request, if any, completed),
\* unless the process exits first
ConnectionsClose ==
    \A s \in Slots : []<>(proc = "exited" \/ ~Connected(s))

\* C10: provided every request in flight completes and every connection
\* closes, once a termination signal is delivered the process exits, with
\* code 0.
C10_SignalLeadsToExitZero ==
    ConnectionsClose => ((signals # <<>>) ~> (proc = "exited" /\ exitCode = 0))

C10_Witness ==
    /\ proc = "exited" /\ exitCode = 0
    /\ signals = <<"SIGTERM">>
    /\ certificates # Null
    /\ httpsServer = "Listening"

\* The middleware stack in the order of the app.use calls of server.js:69-100.
StackOrder ==
    <<"helmet", "cors", "limiter", "json", "urlencoded", "validateInput",
      "handleValidationErrors">>
RouteHandlers == {"health", "root", "notFound"}

IsPrefix(t, u) == Len(t) <= Len(u) /\ \A i \in 1 .. Len(t) : t[i] = u[i]

\* C11: the stages that have run for a request are an initial part of helmet,
\* cors, limiter, body parsing, validation, in that order; a route handler runs
\* only after all of them; the stage the request is at is the next one; once
\* a stage has ended the request, no further stage runs for it; and for a
\* request answered 429 nothing has run but helmet, cors and the limiter.
C11_InOrder ==
    \A s \in DOMAIN slots :
        InFlight(s) =>
            LET t == slots[s].trail
                n == Len(t)
                last == IF n = 0 THEN "none" ELSE t[n]
                front == IF n = 0 THEN <<>> ELSE SubSeq(t, 1, n - 1)
            IN  /\ \/ IsPrefix(t, StackOrder)
                   \/ last \in RouteHandlers /\ front = StackOrder
                   \/ last = "errorHandler" /\ IsPrefix(front, StackOrder)
                /\ slots[s].stage \notin {"done", "errorHandler"}
                     => /\ IsPrefix(t, StackOrder)
                        /\ slots[s].stage =
                             IF n < Len(StackOrder) THEN StackOrder[n + 1]
                             ELSE "router"
                /\ slots[s].stage = "errorHandler" => IsPrefix(t, StackOrder)
                /\ (Done(s) /\ slots[s].res.status = 429)
                     => t = <<"helmet", "cors", "limiter">>

C11_NothingAfterEnd ==
    \A s \in DOMAIN slots :
        Done(s) => slots'[s] \in {slots[s], Idle}

C11_StagesInFixedOrder == []C11_InOrder /\ [][C11_NothingAfterEnd]_vars

C11_Witness ==
    \E s \in DOMAIN slots :
        /\ Done(s) /\ slots[s].req.method = "POST" /\ slots[s].req.body = "json"
        /\ slots[s].res.status = 429
        /\ slots[s].trail = <<"helmet", "cors", "limiter">>

\* C12: helmet always hands the request on to cors, and every response of the
\* Express server, whichever stage produced it (cors pre-flight, limiter 429,
\* validation, route, 404, error handler 500), carries the security headers
\* helmet set.
SecurityHeaders ==
    {"Content-Security-Policy", "X-Frame-Options", "X-Content-Type-Options",
     "X-DNS-Prefetch-Control", "X-Permitted-Cross-Domain-Policies",
     "Referrer-Policy"}

C12_SecurityHeadersOnEveryResponse ==
    \A s \in DOMAIN slots :
        (InFlight(s) /\ slots[s].stage # "helmet")
        => /\ slots[s].trail[1] = "helmet"
           /\ Len(slots[s].trail) = 1 => slots[s].stage = "cors"
           /\ SecurityHeaders \subseteq slots[s].res.headers

C12_Witness ==
    /\ \E s \in DOMAIN slots :
         /\ Done(s) /\ slots[s].res.status = 429
         /\ SecurityHeaders \subseteq slots[s].res.headers
    /\ \E key \in DOMAIN store : store[key].totalHits = max + 1

\* C13 (as stated): a response carries Strict-Transport-Security exactly when
\* it is served by the encrypted listener.
C13_HstsOnlyOnEncrypted ==
    \A s \in DOMAIN slots :
        Done(s) => ("Strict-Transport-Security" \in slots[s].res.headers
                    <=> slots[s].req.transport = "tls")

\* C14: an OPTIONS request, whatever its path and Origin, is answered by cors
\* with status 200 and the allowed methods and headers; no later stage runs
\* for it, and the rate limiter's store is untouched while it is handled.
PreflightHeaders == {"Access-Control-Allow-Methods", "Access-Control-Allow-Headers"}

C14_AnsweredByCors ==
    \A s \in DOMAIN slots :
        (InFlight(s) /\ slots[s].req.method = "OPTIONS")
        => /\ slots[s].stage \in {"helmet", "cors", "done"}
           /\ slots[s].rateLimit = NoRateLimit
           /\ Done(s) => /\ slots[s].trail = <<"helmet", "cors">>
                          /\ slots[s].res.status = 200
                          /\ slots[s].res.body = EmptyBody
                          /\ PreflightHeaders \subseteq slots[s].res.headers

C14_StoreUntouched ==
    \A s \in DOMAIN slots :
        (InFlight(s) /\ slots[s].req.method = "OPTIONS" /\ slots'[s] # slots[s])
        => store' = store

C14_PreflightBypassesLaterStages ==
    []C14_AnsweredByCors /\ [][C14_StoreUntouched]_vars

\* answered 200 on a path without route, by a key whose quota is used up
C14_Witness ==
    \E s \in DOMAIN slots :
        /\ Done(s) /\ slots[s].req.method = "OPTIONS"
        /\ slots[s].req.path = "/missing"
        /\ slots[s].req.origin = "http://evil.example"
        /\ slots[s].res.status = 200
        /\ slots[s].req.key \in DOMAIN store
        /\ store[slots[s].req.key].totalHits = max

\* C15 (as stated): every response carries the remaining-quota and reset-time
\* headers of the rate limiter, pre-flight responses included.
QuotaHeaders == {"RateLimit-Remaining", "RateLimit-Reset"}

C15_QuotaHeadersOnEveryResponse ==
    \A s \in DOMAIN slots :
        Done(s) => QuotaHeaders \subseteq slots[s].res.headers

\* C15 (amended): every response to a request that reached the rate limiter,
\* admitted or denied and whatever became of it afterwards, carries the
\* remaining-quota and reset-time headers; the pre-flight responses, which
\* cors sends before the limiter runs, carry neither.
C15_QuotaHeadersOnLimitedResponses ==
    \A s \in DOMAIN slots :
        Done(s) => IF slots[s].req.method = "OPTIONS"
                   THEN QuotaHeaders \cap slots[s].res.headers = {}
                   ELSE QuotaHeaders \subseteq slots[s].res.headers

C15_Witness ==
    \E s \in DOMAIN slots :
        /\ Done(s) /\ slots[s].res.status = 429
        /\ slots[s].req.origin = "http://evil.example"
        /\ QuotaHeaders \subseteq slots[s].res.headers
        /\ "Retry-After" \in slots[s].res.headers

\* C16: a request that every stage passed on and whose path is neither / nor
\* /health is answered 404 with a JSON body whose path field is the request
\* target exactly as sent, query string included. (HEAD is left out: HTTP
\* sends no body in answer to it; its status is 404 all the same.)
Routes == {"/", "/health"}

C17_InvalidFieldRejected ==
    \A s \in DOMAIN slots :
        /\ (InFlight(s) /\ slots[s].req.body = "invalid"
              /\ IsPrefix(SubSeq(StackOrder, 1, 6), slots[s].trail))
            => slots[s].errors # <<>>
        /\ (Done(s) /\ slots[s].req.body = "invalid"
              /\ IsPrefix(SubSeq(StackOrder, 1, 6), slots[s].trail))
            => /\ slots[s].res.status = 400
               /\ slots[s].trail = StackOrder
               /\ DOMAIN slots[s].res.body = {"error", "details"}
        /\ (InFlight(s) /\ IsPrefix(StackOrder, slots[s].trail)
              /\ slots[s].errors = <<>>)
            => slots[s].stage \in {"router", "done"} /\ slots[s].res.status # 400

\* C18 (as stated): when the process exits after a termination signal, no
\* request that either listener accepted before the signal is still being
\* handled: each has been answered in full, unless its client went away.
C18_InFlightRequestsComplete ==
    (proc = "exited" /\ signals # <<>>)
    => \A s \in DOMAIN slots :
         (InFlight(s) /\ slots[s].accepted = 0 /\ ~SocketDestroyed(s)) => Done(s)

\* C19 (as stated): a termination signal starts the close of both listeners,
\* each on its own: the encrypted listener's close does not wait for the
\* plain listener's close to complete, nor the other way round.
C19_ListenersClosedIndependently ==
    (proc = "running" /\ signals # <<>>)
    => /\ httpServer # "Listening"
       /\ httpsServer # "Listening"

\* C20: a request whose processing raises (a body express.json cannot parse)
\* is answered 500 with the generic body by the error handler; the process
\* keeps running; the steps that handle the fault touch nothing but that
\* request; and every other request, in flight with it or after it, gets the
\* answer it gets without the fault.
Faulty(s) == InFlight(s) /\ slots[s].req.body = "malformed"

C20_FaultAnswered500 ==
    /\ proc \in {"loading", "running"}
    /\ \A s \in DOMAIN slots :
         /\ (Faulty(s) /\ Done(s))
            => /\ slots[s].res.status = 500
               /\ slots[s].res.body = ServerErrorBody
               /\ slots[s].trail = <<"helmet", "cors", "limiter", "json",
                                     "errorHandler">>
         /\ (InFlight(s) /\ ~Faulty(s))
            => /\ slots[s].error = "none"
               /\ Done(s) => /\ slots[s].res.status = 200
                              /\ slots[s].res.body = HelloBody

C20_FaultIsolated ==
    \A s \in DOMAIN slots :
        (/\ Faulty(s)
         /\ slots[s].stage \in {"json", "errorHandler"}
         /\ slots'[s] # slots[s])
        => /\ \A t \in DOMAIN slots \ {s} : slots'[t] = slots[t]
           /\ store' = store
           /\ UNCHANGED <<proc, exitCode, certificates, httpServer, httpsServer,
                          freshHttps, closeCbs, signals>>
           /\ log' \in {log, log \cup {"server-error"}}

C20_FaultsContained == []C20_FaultAnswered500 /\ [][C20_FaultIsolated]_vars

\* a request answered 200 that was counted after, and handled next to, one
\* answered 500
C20_Witness ==
    \E s, t \in DOMAIN slots :
        /\ Done(s) /\ Faulty(s) /\ slots[s].res.status = 500
        /\ slots[s].rateLimit.used = 1
        /\ Done(t) /\ ~Faulty(t) /\ slots[t].res.status = 200
        /\ slots[t].rateLimit.used = 2

\* C21: when the encrypted listener fails to bind while the plain port is
\* free, the failure is logged for the encrypted listener and for it alone,
\* the process keeps running, and the plain listener comes up and answers.
C21_HttpsBindFailureNotFatal ==
    (httpsServer = "Failed" /\ env.port3000 = "free")
    => /\ "https-error" \in log
       /\ "http-error" \notin log
       /\ proc = "running"
       /\ httpServer \in {"Binding", "Listening"}
       /\ \A s \in DOMAIN slots :
            HasConn(s) => Conn(s).transport = "plain"

C21_Witness ==
    /\ httpsServer = "Failed" /\ httpServer = "Listening"
    /\ \E s \in DOMAIN slots :
         /\ Done(s) /\ slots[s].req.transport = "plain"
         /\ slots[s].res.status = 200 /\ slots[s].res.body = HelloBody

\* C23: the limiter keeps one fixed window per key. It lets at most max
\* requests through in a window; a key's record is reset only by a request
\* that arrives when the window's reset time has come, and then entirely
\* (this request is the first of a window of windowMs that begins now); so
\* consecutive windows do not overlap, and what is let through in a window
\* and in the one before it, which covers every interval of windowMs, is at
\* most twice max.
C23_WindowsBounded ==
    \A key \in DOMAIN admitted :
        LET w == admitted[key] IN
        /\ key \in DOMAIN store
        /\ store[key].resetTime = w.cur.resetTime
        /\ w.cur.admitted <= max
        /\ w.prev.admitted <= max
        /\ w.cur.admitted + w.prev.admitted <= 2 * max
        /\ w.cur.resetTime - windowMs >= w.prev.resetTime

C23_ResetOnlyWhenDue ==
    \A key \in DOMAIN store :
        IF store'[key].resetTime # store[key].resetTime
        THEN /\ now >= store[key].resetTime
             /\ store'[key].resetTime = now + windowMs
             /\ store'[key].totalHits = 1
        ELSE store'[key].totalHits >= store[key].totalHits

C23_FixedWindow == []C23_WindowsBounded /\ [][C23_ResetOnlyWhenDue]_vars

\* max let through at the end of one window and max more right after it
C23_Witness ==
    \E key \in DOMAIN admitted :
        /\ admitted[key].prev.admitted = max
        /\ admitted[key].cur.admitted = max
        /\ admitted[key].cur.resetTime - windowMs = admitted[key].prev.resetTime
        /\ store[key].totalHits = max + 1

\* C22 (as stated): once the bind results are in and while the process runs,
\* the plain listener is listening (only the encrypted one may be absent); and
\* if neither listener is listening, the plain listener's error was logged.
C22_OnlyEncryptedMayBeAbsent ==
    (proc = "running" /\ httpServer # "Binding" /\ httpsServer # "Binding")
    => /\ httpServer = "Listening"
       /\ (httpServer # "Listening" /\ httpsServer # "Listening")
            => "http-error" \in log

\* C24: when a client goes away after its request passed the limiter, the
\* hit counted for it stays counted (no count ever goes down), the step
\* touches nothing but that request, and every other request is answered as
\* it would have been.
Aborted(s) == InFlight(s) /\ slots[s].error = "request.aborted"

C24_OthersAnswered ==
    \A s \in DOMAIN slots :
        /\ Counted(s)
            => /\ slots[s].req.key \in DOMAIN store
               /\ store[slots[s].req.key].totalHits >= slots[s].rateLimit.used
        /\ Aborted(s) => Counted(s)
        /\ (Done(s) /\ ~Aborted(s))
            => slots[s].res.status = 200 /\ slots[s].res.body = HelloBody

C24_OnlyThatRequest ==
    /\ \A key \in DOMAIN store :
         /\ key \in DOMAIN store'
         /\ store'[key].totalHits >= store[key].totalHits
    /\ \A s \in DOMAIN slots :
         (/\ ~Aborted(s) /\ slots'[s].stage \notin {"idle", "open"}
          /\ slots'[s].error = "request.aborted")
         => /\ \A t \in DOMAIN slots \ {s} : slots'[t] = slots[t]
            /\ UNCHANGED <<procVars, store, admitted>>

C24_DisconnectIsLocal == []C24_OthersAnswered /\ [][C24_OnlyThatRequest]_vars

C24_Witness ==
    \E s, t \in DOMAIN slots :
        /\ Aborted(s) /\ Done(s) /\ slots[s].rateLimit.used = 1
        /\ Done(t) /\ ~Aborted(t) /\ slots[t].res.status = 200
        /\ slots[t].rateLimit.used = 2
        /\ store[slots[s].req.key].totalHits = 2

\* C25: both listeners run the same application on the same limiter store.
\* The application's answer to a request does not depend on the transport,
\* the Strict-Transport-Security header set aside: for every request and
\* limiter count the status, body and other headers are the same over plain
\* and encrypted, and each response actually sent is the one the application
\* gives the same request over the other transport. Requests of one key are
\* counted in one record whatever listener they came through: no two
\* requests of a window get the same count.
BoundaryHits == {1, max, max + 1}
OtherTransport(req) ==
    [req EXCEPT !.transport = IF @ = "plain" THEN "tls" ELSE "plain"]
Wire(res) ==
    [status |-> res.status, body |-> res.body,
     headers |-> res.headers \ {"Strict-Transport-Security"}]
clientOf(c) ==
    [totalHits |-> c.rateLimit.used, resetTime |-> c.rateLimit.resetTime]

C25_SamePipelineSameCounter ==
    /\ proc = "loading"
        => \A req \in Requests, hits \in BoundaryHits :
             LET client == [totalHits |-> hits, resetTime |-> windowMs] IN
             Wire(app(NewContext(req), client).res)
               = Wire(app(NewContext(OtherTransport(req)), client).res)
    /\ \A s \in DOMAIN slots :
         Done(s) => Wire(slots[s].res)
                      = Wire(app(NewContext(OtherTransport(slots[s].req)),
                                 clientOf(slots[s])).res)
    /\ DOMAIN store \subseteq Keys
    /\ \A s, t \in DOMAIN slots :
         (s # t /\ SameWindow(s, t))
         => slots[s].rateLimit.used # slots[t].rateLimit.used

C25_Witness ==
    \E s, t \in DOMAIN slots :
        /\ Done(s) /\ slots[s].req.transport = "plain"
        /\ Done(t) /\ slots[t].req.transport = "tls"
        /\ slots[s].req.method = slots[t].req.method
        /\ slots[s].req.body = slots[t].req.body
        /\ slots[s].rateLimit.used = 1 /\ slots[t].rateLimit.used = 2
        /\ slots[s].rateLimit.resetTime = slots[t].rateLimit.resetTime
        /\ slots[s].res.status = 404 /\ slots[t].res.status = 404
        /\ slots[s].res.body = slots[t].res.body

\* C26 (as stated): a listener only moves along Unstarted, Binding, Listening,
\* Closing, Closed, or to Failed from Binding or Listening; it never leaves
\* Closed or Failed; a connection is accepted only by a listener that is
\* Listening; and a close is only ever issued to a server that was started,
\* never to a freshly created one.
LifecycleMoves ==
    {<<"Unstarted", "Binding">>, <<"none", "Binding">>,
     <<"Binding", "Listening">>, <<"Binding", "Failed">>,
     <<"Listening", "Closing">>, <<"Listening", "Failed">>,
     <<"Closing", "Closed">>}

C26_Moves ==
    /\ httpServer' # httpServer => <<httpServer, httpServer'>> \in LifecycleMoves
    /\ httpsServer' # httpsServer => <<httpsServer, httpsServer'>> \in LifecycleMoves
    /\ \A s \in DOMAIN slots :
         (~HasConn(s) /\ slots'[s].stage # "idle")
         => /\ slots'[s].stage = "open"
            /\ Listener(slots'[s].conn.transport) = "Listening"
    /\ freshHttps' = 0

C26_ListenerLifecycle == [][C26_Moves]_vars

\* C27: every request in the stack is answered once. Until a stage ends the
\* request nothing has been written to its status or body and every stage has
\* run at most once, so the chain is finite; the stage that ends it is the
\* last one that ran and writes a status together with the whole body that
\* belongs to it; only that step writes status or body; and after it the
\* response never changes again.
FinalBodies(c) ==
    CASE c.res.status = 200 -> {HelloBody, EmptyBody}
                                 \cup {b \in {c.res.body} : "timestamp" \in DOMAIN b
                                          /\ DOMAIN b.timestamp = DOMAIN toISOString(0)
                                          /\ [b EXCEPT !.timestamp = toISOString(0)]
                                               = HealthBody(0)}
      [] c.res.status = 404 -> {NotFoundBody(originalUrl(c.req))}
      [] c.res.status = 429 -> {TooManyBody}
      [] c.res.status = 500 -> {ServerErrorBody}
      [] OTHER -> {}

Enders == RouteHandlers \cup {"cors", "limiter", "errorHandler"}

C27_OneCompleteResponse ==
    \A s \in DOMAIN slots :
        InFlight(s) =>
            LET c == slots[s]
                n == Len(c.trail)
            IN  /\ Cardinality(Trail(s)) = n
                /\ n <= Len(StackOrder) + 1
                /\ ~Done(s) => /\ c.res.status = 200
                               /\ c.res.body = EmptyBody
                               /\ c.stage \notin Trail(s)
                /\ Done(s) => /\ n >= 1
                              /\ c.trail[n] \in Enders
                              /\ c.res.body \in
                                    {Sent(c.req, b) : b \in FinalBodies(c)}

C27_WrittenOnlyByTheEnd ==
    \A s \in DOMAIN slots :
        /\ (InFlight(s) /\ ~Done(s) /\ slots'[s].stage \notin {"idle", "done"})
           => /\ slots'[s].res.status = slots[s].res.status
              /\ slots'[s].res.body = slots[s].res.body
        /\ Done(s) => slots'[s] \in {slots[s], Idle}

C27_ExactlyOneResponse ==
    []C27_OneCompleteResponse /\ [][C27_WrittenOnlyByTheEnd]_vars

C27_Witness ==
    \E s \in DOMAIN slots :
        /\ Done(s) /\ slots[s].req.method = "PUT"
        /\ slots[s].req.body = "malformed"
        /\ slots[s].trail = <<"helmet", "cors", "limiter", "json", "errorHandler">>
        /\ slots[s].res.status = 500
        /\ slots[s].res.body = ServerErrorBody

====
